---- MODULE Spec2Model ----
(***************************************************************************)
(* Model of simsopt's coil/current layer (src/simsopt/field/coil.py):      *)
(* Current, ScaledCurrent, CurrentSum, Coil and the symmetry expansion     *)
(* coils_via_symmetries; of the SquaredFlux objective                      *)
(* (src/simsopt/objectives/fluxobjective.py); of CurveShiftedRotated and   *)
(* its rotations (src/simsopt/geo/multifilament.py); and of the currents   *)
(* built by examples/2_Intermediate/stage_two_optimization_w7x.py.         *)
(* Objects live on heaps (sequences); an object's identity is its index.   *)
(* Floats are modelled by integers.                                        *)
(***************************************************************************)
EXTENDS Integers, Sequences, FiniteSets, TLC

VARIABLES heap,      \* the CurrentBase objects, by identity
          curveObjs, \* the Curve objects, by identity
          coils,     \* the list returned by the last coils_via_symmetries call
          expansion, \* the arguments of that call
          optimize,  \* TRUE when the interpreter runs with -O (assert statements stripped)
          res,       \* the last call and what it returned
          fixed,     \* the Currents whose dof is fixed (fix_all)
          baseCurrents, \* base_currents, the list the W7-X example builds
          fieldPoints, \* the field's evaluation points (a list of points)
          fieldB,    \* what the field's sources produce at every point of space
          fluxObjs,  \* the SquaredFlux objects, by identity
          wrappers,  \* the CurveShiftedRotated objects, by identity
          baseDofs,  \* the dofs of the base curve the wrappers are built on
          rotDofs    \* the dofs of the FilamentRotation node

fluxVars == <<fieldPoints, fieldB, fluxObjs>>

filVars == <<wrappers, baseDofs, rotDofs>>

vars == <<heap, curveObjs, coils, expansion, optimize, res, fixed, baseCurrents,
          fieldPoints, fieldB, fluxObjs, wrappers, baseDofs, rotDofs>>

\* ---------------------------------------------------------------- bounds
NBase == 2        \* base Current objects constructed before the run
MaxNodes == 4     \* CurrentBase objects the algebra specification may hold
MaxVal == 2       \* current values are drawn from {-1} \cup 2..MaxVal
MaxScale == 2     \* scale factors are drawn from {-1} \cup 2..MaxScale
MaxCo == 2        \* cotangents are drawn from 1..MaxCo
MaxSum == 3       \* longest list handed to sum()
MaxN == 2         \* base Curve objects; longest list handed to the expansion
MaxNfp == 2       \* nfp is drawn from 1..MaxNfp
MaxSymNodes == 3  \* the expansion is called while the current heap is this small

Vals == {-1} \cup (2..MaxVal)
Scales == {-1} \cup (2..MaxScale)
CoVals == 1..MaxCo

\* ---------------------------------------------------------------- helpers
Ids == 1..Len(heap)

SeqsUpTo(S, n) == UNION {[1..m -> S] : m \in 0..n}

\* ------------------------------------------------------------ constructors
\* Current.__init__: one scalar dof, no parents.
Current(current) ==
    [kind |-> "Current", dofs |-> <<current>>, depends_on |-> <<>>]

\* ScaledCurrent.__init__: no dofs of its own, depends on current_to_scale.
ScaledCurrent(current_to_scale, scale) ==
    [kind |-> "ScaledCurrent", dofs |-> <<>>, depends_on |-> <<current_to_scale>>,
     current_to_scale |-> current_to_scale, scale |-> scale]

\* CurrentSum.__init__: no dofs of its own, depends on current_a and current_b.
CurrentSum(current_a, current_b) ==
    [kind |-> "CurrentSum", dofs |-> <<>>, depends_on |-> <<current_a, current_b>>,
     current_a |-> current_a, current_b |-> current_b]

\* ------------------------------------------------------------- Derivative
\* A Derivative maps node identities to gradient entries.  A key is
\* <<"Current", id>> or <<"Curve", id>>.  A Current's entry is a number; a
\* Curve's entry is a formal vector (see the curve section).
CurKey(n) == <<"Current", n>>

VecAdd(u, w) ==
    LET D == DOMAIN u \cup DOMAIN w
        s == [t \in D |-> (IF t \in DOMAIN u THEN u[t] ELSE 0)
                          + (IF t \in DOMAIN w THEN w[t] ELSE 0)]
    IN  [t \in {x \in D : s[x] # 0} |-> s[t]]

VecScale(k, u) ==
    [t \in {x \in DOMAIN u : k * u[x] # 0} |-> k * u[t]]

EntryAdd(key, x, y) == IF key[1] = "Current" THEN x + y ELSE VecAdd(x, y)

EntryScale(key, k, x) == IF key[1] = "Current" THEN k * x ELSE VecScale(k, x)

\* Derivative.__add__: key-wise sum, a key missing on one side counts as zero.
DerivAdd(d1, d2) ==
    [key \in DOMAIN d1 \cup DOMAIN d2 |->
        IF key \in DOMAIN d1 /\ key \in DOMAIN d2 THEN EntryAdd(key, d1[key], d2[key])
        ELSE IF key \in DOMAIN d1 THEN d1[key] ELSE d2[key]]

\* Derivative.__rmul__: every entry times the scalar.
DerivScale(k, d) == [key \in DOMAIN d |-> EntryScale(key, k, d[key])]

EmptyDeriv == [key \in {} |-> 0]

\* -------------------------------------------------------- value and vjp
RECURSIVE get_value(_, _)
\* Current.get_value / ScaledCurrent.get_value / CurrentSum.get_value on heap h.
\* (The Bad... operators are faulty variants, each used to see that a property
\* notices the fault.)
BadScaledValue(h, n) == get_value(h, h[n].current_to_scale)

ScaledValue(h, n) == h[n].scale * get_value(h, h[n].current_to_scale)

BadSumValue(h, n) == get_value(h, h[n].current_a) - get_value(h, h[n].current_b)

SumValue(h, n) == get_value(h, h[n].current_a) + get_value(h, h[n].current_b)

get_value(h, n) ==
    CASE h[n].kind = "Current" -> h[n].dofs[1]
      [] h[n].kind = "ScaledCurrent" -> ScaledValue(h, n)
      [] h[n].kind = "CurrentSum" -> SumValue(h, n)

RECURSIVE vjp(_, _, _)
\* Current.vjp
CurrentVjp(n, v_current) == (CurKey(n) :> v_current)

\* ScaledCurrent.vjp
BadScaledVjp(h, n, v_current) == vjp(h, h[n].current_to_scale, v_current)

ScaledVjp(h, n, v_current) ==
    DerivScale(h[n].scale, vjp(h, h[n].current_to_scale, v_current))

\* CurrentSum.vjp
BadSumVjp(h, n, v_current) ==
    vjp(h, h[n].current_a, v_current) @@ vjp(h, h[n].current_b, v_current)

SumVjp(h, n, v_current) ==
    DerivAdd(vjp(h, h[n].current_a, v_current), vjp(h, h[n].current_b, v_current))

vjp(h, n, v_current) ==
    CASE h[n].kind = "Current" -> CurrentVjp(n, v_current)
      [] h[n].kind = "ScaledCurrent" -> ScaledVjp(h, n, v_current)
      [] h[n].kind = "CurrentSum" -> SumVjp(h, n, v_current)

\* ------------------------------------------------------------- curves
\* A base curve (CurveXYZFourier and the like) is opaque here.
BaseCurve == [kind |-> "Curve"]

\* RotatedCurve(curve, phi, flip); phi = 2*pi*k/nfp is kept as the pair <<k, nfp>>.
RotatedCurve(curve, phi, flip) ==
    [kind |-> "RotatedCurve", curve |-> curve, phi |-> phi, flip |-> flip]

\* Coil.__init__: no dofs of its own, depends on its curve and its current.
Coil(curve, current) ==
    [curve |-> curve, current |-> current, dofs |-> <<>>,
     depends_on |-> <<curve, current>>]

\* A faulty flip list that forgets stellarator symmetry.
Badflip_list(stellsym) == <<FALSE>>

flip_list(stellsym) == IF stellsym THEN <<FALSE, TRUE>> ELSE <<FALSE>>

\* apply_symmetries_to_curves.  st = [objs: the curve heap, out: the list built
\* so far]; the three operators below are the three nested loops.
BadCurveStep(st, base_curves, k, nfp, flip, i) ==
    [objs |-> Append(st.objs, RotatedCurve(base_curves[i], <<k, nfp>>, flip)),
     out |-> Append(st.out, Len(st.objs) + 1)]

CurveStep(st, base_curves, k, nfp, flip, i) ==
    IF k = 0 /\ ~flip
    THEN [st EXCEPT !.out = Append(st.out, base_curves[i])]
    ELSE [objs |-> Append(st.objs, RotatedCurve(base_curves[i], <<k, nfp>>, flip)),
          out |-> Append(st.out, Len(st.objs) + 1)]

RECURSIVE CurveLoopI(_, _, _, _, _, _)
CurveLoopI(st, base_curves, k, nfp, flip, i) ==
    IF i > Len(base_curves) THEN st
    ELSE CurveLoopI(CurveStep(st, base_curves, k, nfp, flip, i),
                    base_curves, k, nfp, flip, i + 1)

RECURSIVE CurveLoopFlip(_, _, _, _, _, _)
CurveLoopFlip(st, base_curves, k, nfp, fl, j) ==
    IF j > Len(fl) THEN st
    ELSE CurveLoopFlip(CurveLoopI(st, base_curves, k, nfp, fl[j], 1),
                       base_curves, k, nfp, fl, j + 1)

RECURSIVE CurveLoopK(_, _, _, _, _)
CurveLoopK(st, base_curves, k, nfp, fl) ==
    IF k >= nfp THEN st
    ELSE CurveLoopK(CurveLoopFlip(st, base_curves, k, nfp, fl, 1),
                    base_curves, k + 1, nfp, fl)

apply_symmetries_to_curves(objs, base_curves, nfp, stellsym) ==
    CurveLoopK([objs |-> objs, out |-> <<>>], base_curves, 0, nfp, flip_list(stellsym))

\* apply_symmetries_to_currents, with st = [objs: the current heap, out].
BadCurrentStep(st, base_currents, flip, i) ==
    [st EXCEPT !.out = Append(st.out, base_currents[i])]

CurrentStep(st, base_currents, flip, i) ==
    IF flip
    THEN [objs |-> Append(st.objs, ScaledCurrent(base_currents[i], -1)),
          out |-> Append(st.out, Len(st.objs) + 1)]
    ELSE [st EXCEPT !.out = Append(st.out, base_currents[i])]

RECURSIVE CurrentLoopI(_, _, _, _)
CurrentLoopI(st, base_currents, flip, i) ==
    IF i > Len(base_currents) THEN st
    ELSE CurrentLoopI(CurrentStep(st, base_currents, flip, i), base_currents, flip, i + 1)

RECURSIVE CurrentLoopFlip(_, _, _, _)
CurrentLoopFlip(st, base_currents, fl, j) ==
    IF j > Len(fl) THEN st
    ELSE CurrentLoopFlip(CurrentLoopI(st, base_currents, fl[j], 1), base_currents, fl, j + 1)

RECURSIVE CurrentLoopK(_, _, _, _, _)
CurrentLoopK(st, base_currents, k, nfp, fl) ==
    IF k >= nfp THEN st
    ELSE CurrentLoopK(CurrentLoopFlip(st, base_currents, fl, 1), base_currents, k + 1, nfp, fl)

apply_symmetries_to_currents(objs, base_currents, nfp, stellsym) ==
    CurrentLoopK([objs |-> objs, out |-> <<>>], base_currents, 0, nfp, flip_list(stellsym))

Min(a, b) == IF a < b THEN a ELSE b

\* zip(curves, currents) in coils_via_symmetries: stops at the shorter list.
ZipCoils(cs, is) == [j \in 1..Min(Len(cs), Len(is)) |-> Coil(cs[j], is[j])]

\* ------------------------------------------------- curve and coil vjp
\* A cotangent on a curve's geometry is kept as a formal vector: a function
\* from the sequence of transforms it has been pushed through to its
\* coefficient.  UnitVec(v) is v times the untransformed basis vector.
CurveKey(c) == <<"Curve", c>>

UnitVec(v) == (<<>> :> v)

\* RotatedCurve: v <- matmult(v, rotmatT), the transpose of its own rotation
\* and reflection, tagged here by <<phi, flip>>.
Rotate(rc, vec) ==
    [p \in {Append(q, <<rc.phi, rc.flip>>) : q \in DOMAIN vec} |->
        vec[SubSeq(p, 1, Len(p) - 1)]]

RECURSIVE curve_vjp(_, _, _, _)
\* d<chan>_by_dcoeff_vjp of curve c: a wrapper forwards the transformed
\* cotangent to its base curve; a base curve owns the entry.
curve_vjp(objs, c, chan, vec) ==
    IF objs[c].kind = "Curve"
    THEN (CurveKey(c) :> [t \in {<<chan, p>> : p \in DOMAIN vec} |-> vec[t[2]]])
    ELSE curve_vjp(objs, objs[c].curve, chan, Rotate(objs[c], vec))

dgamma_by_dcoeff_vjp(objs, c, v) == curve_vjp(objs, c, "gamma", UnitVec(v))

dgammadash_by_dcoeff_vjp(objs, c, v) == curve_vjp(objs, c, "gammadash", UnitVec(v))

\* Coil.vjp
BadCoilVjp(objs, h, coil, v_gamma, v_gammadash, v_current) ==
    DerivAdd(dgamma_by_dcoeff_vjp(objs, coil.curve, v_gamma),
             vjp(h, coil.current, v_current))

CoilVjp(objs, h, coil, v_gamma, v_gammadash, v_current) ==
    DerivAdd(DerivAdd(dgamma_by_dcoeff_vjp(objs, coil.curve, v_gamma),
                      dgammadash_by_dcoeff_vjp(objs, coil.curve, v_gammadash)),
             vjp(h, coil.current, v_current))

RECURSIVE B_vjp(_, _, _, _, _)
\* The field's B_vjp: every coil's vjp on the cotangents the kernel's adjoint
\* hands it (w[j], one number per coil, used for its three cotangents), summed.
B_vjp(objs, h, cs, w, j) ==
    IF j > Len(cs) THEN EmptyDeriv
    ELSE DerivAdd(CoilVjp(objs, h, cs[j], w[j], w[j], w[j]), B_vjp(objs, h, cs, w, j + 1))

\* ---------------------------------------------------------------- Init
NoRes == [op |-> "none"]

Init ==
    /\ heap \in [1..NBase -> {Current(v) : v \in Vals}]
    /\ curveObjs = [c \in 1..MaxN |-> BaseCurve]
    /\ coils = <<>>
    /\ expansion = NoRes
    /\ optimize \in BOOLEAN
    /\ res = NoRes
    /\ fixed = {}
    /\ baseCurrents = <<>>
    /\ fieldPoints = <<>>
    /\ fieldB = <<>>
    /\ fluxObjs = <<>>
    /\ wrappers = <<>>
    /\ baseDofs = 0
    /\ rotDofs = 0

\* ------------------------------------------------- composition operators
\* Each takes the heap and returns [objs: the heap afterwards, ret: the
\* identity of the object returned].

\* A faulty __neg__ that flips the operand in place and returns it.
BadNeg(objs, self) ==
    IF objs[self].kind = "Current"
    THEN [objs |-> [objs EXCEPT ![self].dofs = <<(-1) * objs[self].dofs[1]>>], ret |-> self]
    ELSE [objs |-> Append(objs, ScaledCurrent(self, -1)), ret |-> Len(objs) + 1]

\* CurrentBase.__mul__ (other is a number: the assert on its type holds)
op_mul(objs, self, other) ==
    [objs |-> Append(objs, ScaledCurrent(self, other)), ret |-> Len(objs) + 1]

\* CurrentBase.__rmul__
op_rmul(objs, self, other) ==
    [objs |-> Append(objs, ScaledCurrent(self, other)), ret |-> Len(objs) + 1]

\* CurrentBase.__neg__
op_neg(objs, self) ==
    [objs |-> Append(objs, ScaledCurrent(self, -1)), ret |-> Len(objs) + 1]

\* CurrentBase.__add__
op_add(objs, self, other) ==
    [objs |-> Append(objs, CurrentSum(self, other)), ret |-> Len(objs) + 1]

\* A faulty __sub__ that forgets to negate other.
BadSub(objs, self, other) ==
    LET m == op_neg(objs, other) IN op_add(m.objs, self, other)

\* CurrentBase.__sub__: CurrentSum(self, -other)
op_sub(objs, self, other) ==
    LET m == op_neg(objs, other) IN op_add(m.objs, self, m.ret)

\* A faulty __radd__ that adds the node to itself when handed 0.
BadRAdd(objs, self, other) ==
    [objs |-> Append(objs, CurrentSum(self, self)), ret |-> Len(objs) + 1]

\* CurrentBase.__radd__: number + node lands here; 0 gives the node itself back.
op_radd(objs, self, other) ==
    IF other = 0
    THEN [objs |-> objs, ret |-> self]
    ELSE op_add(objs, self, other)

\* One round of the builtin sum(): acc = acc + x.  The accumulator st.ret is
\* the number 0 (no object has identity 0) until the first element is added.
SumStep(st, x) ==
    IF st.ret = 0 THEN op_radd(st.objs, x, 0) ELSE op_add(st.objs, st.ret, x)

RECURSIVE SumLoop(_, _, _)
SumLoop(st, xs, j) ==
    IF j > Len(xs) THEN st ELSE SumLoop(SumStep(st, xs[j]), xs, j + 1)

\* ------------------------------------------------------------- actions
\* sopp.Current.set_dofs through Optimizable: a base Current whose dof is free
\* gets a new value.
SetDofs ==
    \E n \in Ids, v \in Vals :
        /\ heap[n].kind = "Current"
        /\ n \notin fixed
        /\ heap' = [heap EXCEPT ![n].dofs = <<v>>]
        /\ res' = [op |-> "set_dofs", self |-> n, value |-> v]
        /\ UNCHANGED <<curveObjs, coils, expansion, optimize, fixed, baseCurrents,
                       fluxVars, filVars>>

\* self * other
Mul(bound) ==
    /\ Len(heap) < bound
    /\ \E n \in Ids, other \in Scales :
        /\ LET r == op_mul(heap, n, other)
           IN  /\ heap' = r.objs
               /\ res' = [op |-> "mul", self |-> n, other |-> other, ret |-> r.ret]
        /\ UNCHANGED <<curveObjs, coils, expansion, optimize, fixed, baseCurrents,
                       fluxVars, filVars>>

\* other * self
RMul(bound) ==
    /\ Len(heap) < bound
    /\ \E n \in Ids, other \in Scales :
        /\ LET r == op_rmul(heap, n, other)
           IN  /\ heap' = r.objs
               /\ res' = [op |-> "rmul", self |-> n, other |-> other, ret |-> r.ret]
        /\ UNCHANGED <<curveObjs, coils, expansion, optimize, fixed, baseCurrents,
                       fluxVars, filVars>>

\* -self
Neg(bound) ==
    /\ Len(heap) < bound
    /\ \E n \in Ids :
        /\ LET r == op_neg(heap, n)
           IN  /\ heap' = r.objs
               /\ res' = [op |-> "neg", self |-> n, ret |-> r.ret]
        /\ UNCHANGED <<curveObjs, coils, expansion, optimize, fixed, baseCurrents,
                       fluxVars, filVars>>

\* self + other
Add(bound) ==
    /\ Len(heap) < bound
    /\ \E n \in Ids, other \in Ids :
        /\ LET r == op_add(heap, n, other)
           IN  /\ heap' = r.objs
               /\ res' = [op |-> "add", self |-> n, other |-> other, ret |-> r.ret]
        /\ UNCHANGED <<curveObjs, coils, expansion, optimize, fixed, baseCurrents,
                       fluxVars, filVars>>

\* self - other
Sub(bound) ==
    /\ Len(heap) + 1 < bound
    /\ \E n \in Ids, other \in Ids :
        /\ LET r == op_sub(heap, n, other)
           IN  /\ heap' = r.objs
               /\ res' = [op |-> "sub", self |-> n, other |-> other, ret |-> r.ret]
        /\ UNCHANGED <<curveObjs, coils, expansion, optimize, fixed, baseCurrents,
                       fluxVars, filVars>>

\* sum(xs) over a non-empty list of nodes, start value 0.
Sum(bound) ==
    \E xs \in SeqsUpTo(Ids, MaxSum) :
        /\ xs # <<>>
        /\ Len(heap) + Len(xs) - 1 <= bound
        /\ LET st == SumLoop([objs |-> heap, ret |-> 0], xs, 1)
           IN  /\ heap' = st.objs
               /\ res' = [op |-> "sum", xs |-> xs, ret |-> st.ret]
        /\ UNCHANGED <<curveObjs, coils, expansion, optimize, fixed, baseCurrents,
                       fluxVars, filVars>>

\* get_value() on any node.
GetValue ==
    \E n \in Ids :
        /\ res' = [op |-> "get_value", self |-> n, ret |-> get_value(heap, n)]
        /\ UNCHANGED <<heap, curveObjs, coils, expansion, optimize, fixed, baseCurrents,
                       fluxVars, filVars>>

\* vjp(v_current) on any node.
Vjp ==
    \E n \in Ids, v \in CoVals :
        /\ res' = [op |-> "vjp", self |-> n, v_current |-> v, ret |-> vjp(heap, n, v)]
        /\ UNCHANGED <<heap, curveObjs, coils, expansion, optimize, fixed, baseCurrents,
                       fluxVars, filVars>>

\* coils_via_symmetries.  The assert is gone under -O, and zip then pairs the
\* two expanded lists up to the shorter one.
CoilsViaSymmetries ==
    /\ coils = <<>>
    /\ Len(heap) <= MaxSymNodes
    /\ Len(curveObjs) <= MaxN
    /\ \E curves \in {[c \in 1..m |-> c] : m \in 0..MaxN}, currents \in SeqsUpTo(Ids, MaxN),
          nfp \in 1..MaxNfp, stellsym \in BOOLEAN :
           LET args == [curves |-> curves, currents |-> currents, nfp |-> nfp,
                        stellsym |-> stellsym]
           IN  IF ~optimize /\ Len(curves) # Len(currents)
               THEN /\ res' = [op |-> "coils_via_symmetries", args |-> args,
                               err |-> "AssertionError"]
                    /\ UNCHANGED <<heap, curveObjs, coils, expansion, optimize, fixed,
                                   baseCurrents, fluxVars, filVars>>
               ELSE LET cu == apply_symmetries_to_curves(curveObjs, curves, nfp, stellsym)
                        cr == apply_symmetries_to_currents(heap, currents, nfp, stellsym)
                    IN  /\ curveObjs' = cu.objs
                        /\ heap' = cr.objs
                        /\ coils' = ZipCoils(cu.out, cr.out)
                        /\ expansion' = [op |-> "coils_via_symmetries", args |-> args]
                        /\ res' = [op |-> "coils_via_symmetries", args |-> args,
                                   err |-> "none", ret_curves |-> cu.out,
                                   ret_currents |-> cr.out, ret |-> coils']
                        /\ UNCHANGED <<optimize, fixed, baseCurrents, fluxVars, filVars>>

\* Coil.vjp on one coil of the list; v_gammadash is taken one above v_gamma, so
\* that the two geometric cotangents differ.
CoilVjpCall ==
    \E j \in 1..Len(coils), vg \in CoVals, vc \in CoVals :
        /\ res' = [op |-> "coil_vjp", self |-> j, v_gamma |-> vg, v_gammadash |-> vg + 1,
                   v_current |-> vc,
                   ret |-> CoilVjp(curveObjs, heap, coils[j], vg, vg + 1, vc)]
        /\ UNCHANGED <<heap, curveObjs, coils, expansion, optimize, fixed, baseCurrents,
                       fluxVars, filVars>>

\* The field's B_vjp over the coil list; the kernel's adjoint is opaque, its
\* cotangents are inputs: a on coil j0 and 1 on every other coil.
BVjpCall ==
    \E j0 \in 1..Len(coils), a \in CoVals :
        /\ LET w == [j \in 1..Len(coils) |-> IF j = j0 THEN a ELSE 1]
           IN  res' = [op |-> "B_vjp", w |-> w,
                       ret |-> B_vjp(curveObjs, heap, coils, w, 1)]
        /\ UNCHANGED <<heap, curveObjs, coils, expansion, optimize, fixed, baseCurrents,
                       fluxVars, filVars>>

\* --------------------------------------------- the W7-X base currents
\* (examples/2_Intermediate/stage_two_optimization_w7x.py, lines 91-94)
MaxCoils == 5         \* ncoils is drawn from 2..MaxCoils
CurrentScale == 100000  \* the factor 1e5 of the free currents

\* [ScaledCurrent(Current(x), 1e5) for _ in range(ncoils-1)], xs the dofs of
\* the Currents; st = [objs: the heap, out: the list built so far].
RECURSIVE FreeCurrents(_, _, _)
FreeCurrents(st, xs, j) ==
    IF j > Len(xs) THEN st
    ELSE LET c == Len(st.objs) + 1
         IN  FreeCurrents([objs |-> Append(Append(st.objs, Current(xs[j])),
                                           ScaledCurrent(c, CurrentScale)),
                           out |-> Append(st.out, c + 1)],
                          xs, j + 1)

\* Lines 91-94: the free currents, total_current, and the last base current
\* total_current - sum(base_currents).
W7XBaseCurrents(xs, total) ==
    LET free == FreeCurrents([objs |-> <<>>, out |-> <<>>], xs, 1)
        objs == Append(free.objs, Current(total))
        total_current == Len(objs)
        sm == SumLoop([objs |-> objs, ret |-> 0], free.out, 1)
        last == op_sub(sm.objs, total_current, sm.ret)
    IN  [objs |-> last.objs, base_currents |-> Append(free.out, last.ret),
         total_current |-> total_current]

InitW7X ==
    /\ \E ncoils \in 2..MaxCoils :
         \E xs \in [1..(ncoils - 1) -> Vals], total \in Vals :
            LET b == W7XBaseCurrents(xs, total)
            IN  /\ heap = b.objs
                /\ baseCurrents = b.base_currents
                /\ fixed = {b.total_current}
    /\ curveObjs = <<>>
    /\ coils = <<>>
    /\ expansion = NoRes
    /\ optimize = FALSE
    /\ res = NoRes
    /\ fieldPoints = <<>>
    /\ fieldB = <<>>
    /\ fluxObjs = <<>>
    /\ wrappers = <<>>
    /\ baseDofs = 0
    /\ rotDofs = 0

\* ------------------------------------------------------------ SquaredFlux
\* (src/simsopt/objectives/fluxobjective.py)  A point of space is a number in
\* Points.  A surface has nphi x ntheta quadrature points; gamma() and normal()
\* are nphi x ntheta grids of points and of normal vectors.  The normals used
\* here are along an axis, so that their norm is an integer.
MaxPhi == 2       \* nphi is drawn from 1..MaxPhi
MaxTheta == 2     \* ntheta is drawn from 1..MaxTheta
NPoints == 4      \* points of space
MaxFlux == 2      \* SquaredFlux objects built in one run

Points == 1..NPoints

Surfaces ==
    {s \in [nphi : 1..MaxPhi, ntheta : 1..MaxTheta, first : Points] :
        s.first + s.nphi * s.ntheta - 1 <= NPoints}

\* surface.gamma()
SurfGamma(s) ==
    [i \in 1..s.nphi |-> [j \in 1..s.ntheta |-> s.first + (i - 1) * s.ntheta + (j - 1)]]

NormalAt(p) ==
    [c \in 1..3 |-> IF c = (p % 3) + 1
                    THEN (IF p % 4 = 2 THEN -1 ELSE 1) * ((p % 2) + 1)
                    ELSE 0]

\* surface.normal()
SurfNormal(s) == [i \in 1..s.nphi |-> [j \in 1..s.ntheta |-> NormalAt(SurfGamma(s)[i][j])]]

Abs(x) == IF x < 0 THEN 0 - x ELSE x

Dot3(u, w) == u[1] * w[1] + u[2] * w[2] + u[3] * w[3]

\* np.linalg.norm of a vector along an axis
Norm3(u) == Abs(u[1]) + Abs(u[2]) + Abs(u[3])

Scale3(k, u) == [c \in 1..3 |-> k * u[c]]

\* u * (1./k), for k dividing every component
Div3(u, k) == [c \in 1..3 |-> u[c] \div k]

\* xyz.reshape((-1, 3)): the grid's points row by row
Flatten(grid) ==
    LET a == Len(grid)
        b == Len(grid[1])
    IN  [m \in 1..(a * b) |-> grid[((m - 1) \div b) + 1][((m - 1) % b) + 1]]

\* xs.reshape(n.shape) for an a x b grid n; fails unless xs has a*b rows
CanReshape(xs, a, b) == Len(xs) = a * b

Reshape(xs, a, b) == [i \in 1..a |-> [j \in 1..b |-> xs[(i - 1) * b + j]]]

RECURSIVE GridSum(_, _)
GridSum(xs, m) == IF m > Len(xs) THEN 0 ELSE xs[m] + GridSum(xs, m + 1)

\* The targets a SquaredFlux is built with on surface s: None, zeros, ones.
\* A target is None or an nphi x ntheta array.
None == [is_none |-> TRUE, array |-> <<>>]

Array(grid) == [is_none |-> FALSE, array |-> grid]

ConstGrid(s, v) == [i \in 1..s.nphi |-> [j \in 1..s.ntheta |-> v]]

Targets(s) == {None, Array(ConstGrid(s, 0)), Array(ConstGrid(s, 1))}

\* field.B(): the field at its evaluation points
FieldB(points, b) == [m \in DOMAIN points |-> b[points[m]]]

\* sopp.integral_BdotN(Bcoil, Btarget, n): 1/2 of the mean over the grid of
\* (B.n/|n| - Btarget)^2 |n|; an empty Btarget stands for no target.  The
\* result is the fraction num/den.
integral_BdotN(Bcoil, Btarget, n) ==
    LET a == Len(n)
        b == Len(n[1])
        term(i, j) ==
            LET normN == Norm3(n[i][j])
                BdotN == (Dot3(Bcoil[i][j], n[i][j]) \div normN)
                           - (IF Btarget = <<>> THEN 0 ELSE Btarget[i][j])
            IN  BdotN * BdotN * normN
    IN  [num |-> GridSum(Flatten([i \in 1..a |-> [j \in 1..b |-> term(i, j)]]), 1),
         den |-> 2 * a * b]

\* SquaredFlux.__init__ on the SquaredFlux heap objs and the field's points
BadSquaredFluxInit(objs, points, surface, target) ==
    [objs |-> Append(objs, [surface |-> surface, target |-> target, field |-> "field",
                            dofs |-> <<>>, depends_on |-> <<"field">>]),
     points |-> points,
     ret |-> Len(objs) + 1]

SquaredFluxInit(objs, points, surface, target) ==
    [objs |-> Append(objs, [surface |-> surface, target |-> target, field |-> "field",
                            dofs |-> <<>>, depends_on |-> <<"field">>]),
     points |-> Flatten(SurfGamma(surface)),
     ret |-> Len(objs) + 1]

\* SquaredFlux.J
SquaredFluxJ(self, points, b) ==
    LET n == SurfNormal(self.surface)
        Btarget == IF ~self.target.is_none THEN self.target.array ELSE <<>>
    IN  IF ~CanReshape(FieldB(points, b), Len(n), Len(n[1]))
        THEN [err |-> "ValueError"]
        ELSE [err |-> "none",
              ret |-> integral_BdotN(Reshape(FieldB(points, b), Len(n), Len(n[1])),
                                     Btarget, n)]

\* The residual of SquaredFlux.dJ at one quadrature point
BadResidual(target, Bcoil_n, i, j) ==
    IF ~target.is_none THEN target.array[i][j] - Bcoil_n ELSE Bcoil_n

Residual(target, Bcoil_n, i, j) ==
    IF ~target.is_none THEN Bcoil_n - target.array[i][j] ELSE Bcoil_n

\* SquaredFlux.dJ up to its call of field.B_vjp: the cotangent dJdB handed to
\* the field, as the rows num[m] over the common denominator den.
SquaredFluxdJ(self, points, b) ==
    LET n == SurfNormal(self.surface)
        a == Len(n)
        bb == Len(n[1])
    IN  IF ~CanReshape(FieldB(points, b), a, bb)
        THEN [err |-> "ValueError"]
        ELSE LET Bcoil == Reshape(FieldB(points, b), a, bb)
                 dJdB(i, j) ==
                     LET absn == Norm3(n[i][j])
                         unitn == Div3(n[i][j], absn)
                         Bcoil_n == Dot3(Bcoil[i][j], unitn)
                         B_n == Residual(self.target, Bcoil_n, i, j)
                     IN  Scale3(B_n * absn, unitn)
             IN  [err |-> "none",
                  dJdB |-> [num |-> Flatten([i \in 1..a |-> [j \in 1..bb |-> dJdB(i, j)]]),
                            den |-> a * bb]]

\* What the field's sources can produce at the points of space.
FieldConfigs ==
    {[p \in Points |-> <<p, 2, -1>>], [p \in Points |-> <<-2, 1 - p, 3>>]}

InitFlux ==
    /\ heap = <<>>
    /\ curveObjs = <<>>
    /\ coils = <<>>
    /\ expansion = NoRes
    /\ optimize = FALSE
    /\ res = NoRes
    /\ fixed = {}
    /\ baseCurrents = <<>>
    /\ fieldPoints = <<>>
    /\ fieldB \in FieldConfigs
    /\ fluxObjs = <<>>
    /\ wrappers = <<>>
    /\ baseDofs = 0
    /\ rotDofs = 0

coilVars == <<heap, curveObjs, coils, expansion, optimize, fixed, baseCurrents>>

\* Jf = SquaredFlux(surface, field, target)
NewSquaredFlux ==
    /\ Len(fluxObjs) < MaxFlux
    /\ \E surface \in Surfaces :
         \E target \in Targets(surface) :
           LET r == SquaredFluxInit(fluxObjs, fieldPoints, surface, target)
           IN  /\ fluxObjs' = r.objs
               /\ fieldPoints' = r.points
               /\ res' = [op |-> "SquaredFlux", surface |-> surface, target |-> target,
                          ret |-> r.ret]
    /\ UNCHANGED <<coilVars, fieldB, filVars>>

\* field.set_points(points), by any holder of the field
SetPoints ==
    /\ \E surface \in Surfaces :
          /\ fieldPoints' = Flatten(SurfGamma(surface))
          /\ res' = [op |-> "set_points", points |-> fieldPoints']
    /\ UNCHANGED <<coilVars, fieldB, fluxObjs, filVars>>

\* A dof update of the field's sources: the field changes everywhere.
SetFieldDofs ==
    /\ \E b \in FieldConfigs \ {fieldB} :
          /\ fieldB' = b
          /\ res' = [op |-> "set_field_dofs"]
    /\ UNCHANGED <<coilVars, fieldPoints, fluxObjs, filVars>>

\* Jf.J(); points are the points the field is evaluated at.
FluxJ ==
    /\ \E o \in DOMAIN fluxObjs :
          res' = [op |-> "J", self |-> o, points |-> fieldPoints,
                  out |-> SquaredFluxJ(fluxObjs[o], fieldPoints, fieldB)]
    /\ UNCHANGED <<coilVars, fluxVars, filVars>>

\* Jf.dJ(); the field's B_vjp is opaque: out holds the cotangent it is handed.
FluxdJ ==
    /\ \E o \in DOMAIN fluxObjs :
          res' = [op |-> "dJ", self |-> o, points |-> fieldPoints,
                  out |-> SquaredFluxdJ(fluxObjs[o], fieldPoints, fieldB)]
    /\ UNCHANGED <<coilVars, fluxVars, filVars>>

\* ---------------------------------------------------- CurveShiftedRotated
\* (src/simsopt/geo/multifilament.py)  One base curve (curve 1 of the curve
\* heap) and one FilamentRotation node carry dofs; every wrapper is built on
\* them.  Geometry is kept symbolic: a quantity is a tuple naming what it was
\* computed from.
MaxWrappers == 2  \* CurveShiftedRotated objects built in one run
MaxOffset == 1    \* dn and db are drawn from 0..MaxOffset
MaxDof == 1       \* curve and rotation dofs are drawn from 0..MaxDof

Offsets == 0..MaxOffset

DofVals == 0..MaxDof

\* The base curve's gamma(), gammadash(), gammadashdash() at dofs x.
CurveGamma(x) == <<"gamma", x>>

CurveGammaDash(x) == <<"gammadash", x>>

CurveGammaDashDash(x) == <<"gammadashdash", x>>

\* The rotation argument of the constructor: None or the FilamentRotation node.
NoRotation == [kind |-> "None", id |-> 0]

FilamentRotation == [kind |-> "FilamentRotation", id |-> 1]

\* ZeroRotation.__init__
ZeroRotation == [kind |-> "ZeroRotation", id |-> 0]

\* FilamentRotation.alpha / ZeroRotation.alpha
alpha(rotation, r) ==
    IF rotation.kind = "FilamentRotation" THEN <<"alpha", r>> ELSE <<"zero", 0>>

\* FilamentRotation.alphadash / ZeroRotation.alphadash
alphadash(rotation, r) ==
    IF rotation.kind = "FilamentRotation" THEN <<"alphadash", r>> ELSE <<"zero", 0>>

\* rotated_centroid_frame(gamma, gammadash, alpha): the frame (t, n, b)
rotated_centroid_frame(g, gd, a) ==
    [t |-> <<"t", g, gd, a>>, n |-> <<"n", g, gd, a>>, b |-> <<"b", g, gd, a>>]

\* rotated_centroid_frame_dash: the frame's derivative along the curve
rotated_centroid_frame_dash(g, gd, gdd, a, ad) ==
    [t |-> <<"td", g, gd, gdd, a, ad>>, n |-> <<"nd", g, gd, gdd, a, ad>>,
     b |-> <<"bd", g, gd, gdd, a, ad>>]

NoCache == [gamma |-> <<>>, gammadash |-> <<>>]

\* CurveShiftedRotated.__init__
CurveShiftedRotated(curve, dn, db, rotation) ==
    [kind |-> "CurveShiftedRotated", curve |-> curve, dn |-> dn, db |-> db,
     depends_on |-> IF rotation # NoRotation THEN <<CurveKey(curve), <<"Rotation", rotation.id>>>>
                    ELSE <<CurveKey(curve)>>,
     rotation |-> IF rotation = NoRotation THEN ZeroRotation ELSE rotation,
     cache |-> NoCache]

\* CurveShiftedRotated.recompute_bell: invalidate_cache()
BadRecomputeBell(self) == self

recompute_bell(self) == [self EXCEPT !.cache = NoCache]

\* CurveShiftedRotated.gamma_impl at base dofs x and rotation dofs r
gamma_impl(self, x, r) ==
    LET f == rotated_centroid_frame(CurveGamma(x), CurveGammaDash(x), alpha(self.rotation, r))
    IN  [base |-> CurveGamma(x), dn |-> self.dn, n |-> f.n, db |-> self.db, b |-> f.b]

\* CurveShiftedRotated.gammadash_impl
gammadash_impl(self, x, r) ==
    LET f == rotated_centroid_frame_dash(CurveGamma(x), CurveGammaDash(x),
                                         CurveGammaDashDash(x), alpha(self.rotation, r),
                                         alphadash(self.rotation, r))
    IN  [base |-> CurveGammaDash(x), dn |-> self.dn, n |-> f.n, db |-> self.db, b |-> f.b]

\* The dof graph: a dof write on a node rings recompute_bell on every object
\* that depends on it.
RingBells(ws, key) ==
    [w \in DOMAIN ws |->
        IF \E d \in DOMAIN ws[w].depends_on : ws[w].depends_on[d] = key
        THEN recompute_bell(ws[w]) ELSE ws[w]]

\* sopp.Curve.gamma(): the cached value, computed by gamma_impl when there is
\* none.  Returns [self: the wrapper afterwards, ret: the value].
CurveGammaCall(self, x, r) ==
    IF self.cache.gamma # <<>>
    THEN [self |-> self, ret |-> self.cache.gamma[1]]
    ELSE [self |-> [self EXCEPT !.cache.gamma = <<gamma_impl(self, x, r)>>],
          ret |-> gamma_impl(self, x, r)]

\* sopp.Curve.gammadash()
CurveGammaDashCall(self, x, r) ==
    IF self.cache.gammadash # <<>>
    THEN [self |-> self, ret |-> self.cache.gammadash[1]]
    ELSE [self |-> [self EXCEPT !.cache.gammadash = <<gammadash_impl(self, x, r)>>],
          ret |-> gammadash_impl(self, x, r)]

\* rotated_centroid_frame_dcoeff_vjp0/1/2 and
\* rotated_centroid_frame_dash_dcoeff_vjp0..4 on the cotangent
\* (zero, dn*v, db*v): the transposed Jacobian of frame with respect to its
\* argument wrt, as a formal vector with one term per frame vector.
FrameVjp(frame, wrt, dn, db, v) ==
    VecAdd(VecScale(dn * v, (<< <<frame, "n", wrt>> >> :> 1)),
           VecScale(db * v, (<< <<frame, "b", wrt>> >> :> 1)))

RotationKey(rotation) == <<"Rotation", rotation.id>>

\* FilamentRotation.dalpha_by_dcoeff_vjp / dalphadash_by_dcoeff_vjp (chan is
\* "alpha" or "alphadash"); ZeroRotation returns Derivative({}).
rotation_vjp(rotation, chan, vec) ==
    IF rotation.kind = "FilamentRotation"
    THEN (RotationKey(rotation) :> [t \in {<<chan, q>> : q \in DOMAIN vec} |-> vec[t[2]]])
    ELSE EmptyDeriv

\* CurveShiftedRotated.dgamma_by_dcoeff_vjp
BadShiftedDgammaVjp(objs, self, v) ==
    DerivAdd(DerivAdd(curve_vjp(objs, self.curve, "gamma", UnitVec(v)),
                      curve_vjp(objs, self.curve, "gammadash",
                                FrameVjp("frame", "gammadash", self.dn, self.db, v))),
             rotation_vjp(self.rotation, "alpha",
                          FrameVjp("frame", "alpha", self.dn, self.db, v)))

ShiftedDgammaVjp(objs, self, v) ==
    LET vg == FrameVjp("frame", "gamma", self.dn, self.db, v)
        vgd == FrameVjp("frame", "gammadash", self.dn, self.db, v)
        va == FrameVjp("frame", "alpha", self.dn, self.db, v)
    IN  DerivAdd(DerivAdd(curve_vjp(objs, self.curve, "gamma", VecAdd(UnitVec(v), vg)),
                          curve_vjp(objs, self.curve, "gammadash", vgd)),
                 rotation_vjp(self.rotation, "alpha", va))

\* CurveShiftedRotated.dgammadash_by_dcoeff_vjp
ShiftedDgammadashVjp(objs, self, v) ==
    LET vg == FrameVjp("frame_dash", "gamma", self.dn, self.db, v)
        vgd == FrameVjp("frame_dash", "gammadash", self.dn, self.db, v)
        vgdd == FrameVjp("frame_dash", "gammadashdash", self.dn, self.db, v)
        va == FrameVjp("frame_dash", "alpha", self.dn, self.db, v)
        vad == FrameVjp("frame_dash", "alphadash", self.dn, self.db, v)
    IN  DerivAdd(DerivAdd(DerivAdd(DerivAdd(
            curve_vjp(objs, self.curve, "gamma", vg),
            curve_vjp(objs, self.curve, "gammadash", VecAdd(UnitVec(v), vgd))),
            curve_vjp(objs, self.curve, "gammadashdash", vgdd)),
            rotation_vjp(self.rotation, "alpha", va)),
            rotation_vjp(self.rotation, "alphadash", vad))

InitFil ==
    /\ heap = <<>>
    /\ curveObjs = <<BaseCurve>>
    /\ coils = <<>>
    /\ expansion = NoRes
    /\ optimize = FALSE
    /\ res = NoRes
    /\ fixed = {}
    /\ baseCurrents = <<>>
    /\ fieldPoints = <<>>
    /\ fieldB = <<>>
    /\ fluxObjs = <<>>
    /\ wrappers = <<>>
    /\ baseDofs \in DofVals
    /\ rotDofs \in DofVals

\* CurveShiftedRotated(curve, dn, db, rotation) on the base curve
NewWrapper ==
    /\ Len(wrappers) < MaxWrappers
    /\ \E dn \in Offsets, db \in Offsets, rotation \in {NoRotation, FilamentRotation} :
          /\ wrappers' = Append(wrappers, CurveShiftedRotated(1, dn, db, rotation))
          /\ res' = [op |-> "CurveShiftedRotated", rotation |-> rotation,
                     ret |-> Len(wrappers) + 1]
    /\ UNCHANGED <<coilVars, fluxVars, baseDofs, rotDofs>>

\* A dof write on the base curve; had_cache names the wrappers that held a
\* cached quantity when it happened.
SetCurveDofs ==
    /\ \E x \in DofVals :
          /\ baseDofs' = x
          /\ wrappers' = RingBells(wrappers, CurveKey(1))
          /\ res' = [op |-> "set_curve_dofs", value |-> x,
                     had_cache |-> {w \in DOMAIN wrappers : wrappers[w].cache # NoCache}]
    /\ UNCHANGED <<coilVars, fluxVars, rotDofs>>

\* A dof write on the FilamentRotation node
SetRotationDofs ==
    /\ \E r \in DofVals :
          /\ rotDofs' = r
          /\ wrappers' = RingBells(wrappers, RotationKey(FilamentRotation))
          /\ res' = [op |-> "set_rotation_dofs", value |-> r,
                     had_cache |-> {w \in DOMAIN wrappers : wrappers[w].cache # NoCache}]
    /\ UNCHANGED <<coilVars, fluxVars, baseDofs>>

\* wrapper.gamma()
Gamma ==
    /\ \E w \in DOMAIN wrappers :
          LET c == CurveGammaCall(wrappers[w], baseDofs, rotDofs)
          IN  /\ wrappers' = [wrappers EXCEPT ![w] = c.self]
              /\ res' = [op |-> "gamma", self |-> w, ret |-> c.ret]
    /\ UNCHANGED <<coilVars, fluxVars, baseDofs, rotDofs>>

\* wrapper.gammadash()
GammaDash ==
    /\ \E w \in DOMAIN wrappers :
          LET c == CurveGammaDashCall(wrappers[w], baseDofs, rotDofs)
          IN  /\ wrappers' = [wrappers EXCEPT ![w] = c.self]
              /\ res' = [op |-> "gammadash", self |-> w, ret |-> c.ret]
    /\ UNCHANGED <<coilVars, fluxVars, baseDofs, rotDofs>>

\* wrapper.dgamma_by_dcoeff_vjp(v)
DgammaVjpCall ==
    /\ \E w \in DOMAIN wrappers, v \in CoVals :
          res' = [op |-> "dgamma_by_dcoeff_vjp", self |-> w, v |-> v,
                  ret |-> ShiftedDgammaVjp(curveObjs, wrappers[w], v)]
    /\ UNCHANGED <<coilVars, fluxVars, filVars>>

\* wrapper.dgammadash_by_dcoeff_vjp(v)
DgammadashVjpCall ==
    /\ \E w \in DOMAIN wrappers, v \in CoVals :
          res' = [op |-> "dgammadash_by_dcoeff_vjp", self |-> w, v |-> v,
                  ret |-> ShiftedDgammadashVjp(curveObjs, wrappers[w], v)]
    /\ UNCHANGED <<coilVars, fluxVars, filVars>>

\* ------------------------------------------------------- specifications
\* The current algebra on its own.
NextAlg ==
    \/ SetDofs
    \/ Mul(MaxNodes)
    \/ RMul(MaxNodes)
    \/ Neg(MaxNodes)
    \/ Add(MaxNodes)
    \/ Sub(MaxNodes)
    \/ Sum(MaxNodes)
    \/ GetValue
    \/ Vjp

SpecAlg == Init /\ [][NextAlg]_vars

\* Coil assembly: base currents (possibly negated), one symmetry expansion,
\* then dof updates and vjp calls on the coils.
NextSym ==
    \/ SetDofs
    \/ Neg(MaxSymNodes)
    \/ CoilsViaSymmetries
    \/ GetValue
    \/ CoilVjpCall
    \/ BVjpCall

SpecSym == Init /\ [][NextSym]_vars

\* The W7-X base currents under dof updates of the free currents.
NextW7X ==
    \/ SetDofs
    \/ GetValue
    \/ Vjp

SpecW7X == InitW7X /\ [][NextW7X]_vars

\* The flux objective on one shared field.
NextFlux ==
    \/ NewSquaredFlux
    \/ SetPoints
    \/ SetFieldDofs
    \/ FluxJ
    \/ FluxdJ

SpecFlux == InitFlux /\ [][NextFlux]_vars

\* Filament wrappers around one base curve and one rotation node.
NextFil ==
    \/ NewWrapper
    \/ SetCurveDofs
    \/ SetRotationDofs
    \/ Gamma
    \/ GammaDash
    \/ DgammaVjpCall
    \/ DgammadashVjpCall

SpecFil == InitFil /\ [][NextFil]_vars

\* ------------------------------------------------------ claim helpers
IsCurrent(n) == heap[n].kind = "Current"

Val(n) == heap[n].dofs[1]

Range(f) == {f[x] : x \in DOMAIN f}

RECURSIVE SeqSum(_, _)
SeqSum(f, j) == IF j > Len(f) THEN 0 ELSE f[j] + SeqSum(f, j + 1)

NFlips(stellsym) == IF stellsym THEN 2 ELSE 1

\* The place in the expanded list of rotation k, flip index f, base index i.
Pos(n, nflips, k, f, i) == (k * nflips + f) * n + i

\* The transforms a cotangent has been through on its way from copy (k, f).
Path(nfp, k, f) == IF k = 0 /\ f = 0 THEN <<>> ELSE << <<<<k, nfp>>, f = 1>> >>

SameLengths(args) == Len(args.curves) = Len(args.currents)

\* ------------------------------------------------------------- C1
\* C1: a call of coils_via_symmetries with n curves and n currents returns
\* n*nfp*(1+int(stellsym)) coils, and the two expanded lists have that length.
C1_ExpansionCount ==
    (res.op = "coils_via_symmetries" /\ SameLengths(res.args)) =>
        LET total == Len(res.args.curves) * res.args.nfp * NFlips(res.args.stellsym)
        IN  /\ res.err = "none"
            /\ Len(res.ret) = total
            /\ Len(res.ret_curves) = total
            /\ Len(res.ret_currents) = total

C1_Witness ==
    /\ res.op = "coils_via_symmetries"
    /\ res.err = "none"
    /\ Len(res.args.curves) = 2 /\ Len(res.args.currents) = 2
    /\ res.args.nfp = 2 /\ res.args.stellsym
    /\ Len(res.ret) = 8

\* ------------------------------------------------------------- C2
\* C2: the sum of the Coil.vjp results of all coils of an expansion of base
\* Currents holds, for every base Current, the sum over every coil that uses
\* it of that coil's cotangent (negated for a flipped copy), and for every
\* base Curve the cotangents of all its copies, each under its own transform.
ExpandedFromBaseCurrents ==
    /\ expansion.op = "coils_via_symmetries"
    /\ SameLengths(expansion.args)
    /\ \A i \in DOMAIN expansion.args.currents : IsCurrent(expansion.args.currents[i])

C2_CurrentEntry(w, b) ==
    LET a == expansion.args
        n == Len(a.currents)
        contrib == [j \in 1..Len(coils) |->
                      IF a.currents[((j - 1) % n) + 1] # b THEN 0
                      ELSE IF ((j - 1) \div n) % NFlips(a.stellsym) = 1 THEN (-1) * w[j]
                      ELSE w[j]]
    IN  SeqSum(contrib, 1)

C2_CurveEntry(w, i) ==
    LET a == expansion.args
        n == Len(a.curves)
        copies == (0..(a.nfp - 1)) \X (0..(NFlips(a.stellsym) - 1))
    IN  [t \in {<<chan, Path(a.nfp, kf[1], kf[2])>> : chan \in {"gamma", "gammadash"},
                                                     kf \in copies} |->
            LET kf == CHOOSE x \in copies : Path(a.nfp, x[1], x[2]) = t[2]
            IN  w[Pos(n, NFlips(a.stellsym), kf[1], kf[2], i)]]

C2_SharedNodesAccumulate ==
    (res.op = "B_vjp" /\ ExpandedFromBaseCurrents) =>
        LET a == expansion.args
        IN  /\ DOMAIN res.ret = {CurKey(b) : b \in Range(a.currents)}
                                \cup {CurveKey(c) : c \in Range(a.curves)}
            /\ \A b \in Range(a.currents) :
                  res.ret[CurKey(b)] = C2_CurrentEntry(res.w, b)
            /\ \A i \in DOMAIN a.curves :
                  res.ret[CurveKey(a.curves[i])] = C2_CurveEntry(res.w, i)

C2_Witness ==
    /\ res.op = "B_vjp"
    /\ ExpandedFromBaseCurrents
    /\ expansion.args.stellsym /\ expansion.args.nfp = 2
    /\ Len(expansion.args.currents) = 2
    /\ expansion.args.currents[1] = expansion.args.currents[2]
    /\ \E j \in DOMAIN res.w : res.w[j] = 2

\* ------------------------------------------------------------- C3
\* C3: after an expansion and any updates of the base values, the current of
\* the coil at every place has the value of its base current, negated exactly
\* when the copy is a reflected one; a rotation alone keeps the sign.
C3_CopySigns ==
    (expansion.op = "coils_via_symmetries" /\ SameLengths(expansion.args)) =>
        LET a == expansion.args
            n == Len(a.currents)
        IN  \A k \in 0..(a.nfp - 1), f \in 0..(NFlips(a.stellsym) - 1), i \in 1..n :
                LET j == Pos(n, NFlips(a.stellsym), k, f, i)
                IN  get_value(heap, coils[j].current) =
                        (IF f = 1 THEN -1 ELSE 1) * get_value(heap, a.currents[i])

C3_Witness ==
    /\ res.op = "set_dofs"
    /\ expansion.op = "coils_via_symmetries"
    /\ SameLengths(expansion.args)
    /\ expansion.args.stellsym /\ expansion.args.nfp = 2
    /\ res.self \in Range(expansion.args.currents)
    /\ Len(coils) = 8

\* ------------------------------------------------------------- C4
\* C4: in the list an expansion returns, the copies for k = 0 without flip are
\* the base curve and base current objects themselves; every other copy's
\* curve is a RotatedCurve created by the call, one per copy, around the base
\* curve, with angle 2*pi*k/nfp and the copy's flip flag.
C4_Step ==
    (res'.op = "coils_via_symmetries" /\ res'.err = "none" /\ SameLengths(res'.args)) =>
        LET a == res'.args
            n == Len(a.curves)
            nf == NFlips(a.stellsym)
            copies == (0..(a.nfp - 1)) \X (0..(nf - 1)) \X (1..n)
            at(c) == Pos(n, nf, c[1], c[2], c[3])
        IN  /\ SubSeq(curveObjs', 1, Len(curveObjs)) = curveObjs
            /\ \A c \in copies :
                  IF c[1] = 0 /\ c[2] = 0
                  THEN /\ coils'[at(c)].curve = a.curves[c[3]]
                       /\ coils'[at(c)].current = a.currents[c[3]]
                       /\ res'.ret_curves[at(c)] = a.curves[c[3]]
                       /\ res'.ret_currents[at(c)] = a.currents[c[3]]
                  ELSE /\ coils'[at(c)].curve \notin 1..Len(curveObjs)
                       /\ curveObjs'[coils'[at(c)].curve] =
                              RotatedCurve(a.curves[c[3]], <<c[1], a.nfp>>, c[2] = 1)
                       /\ \A d \in copies \ {c} : coils'[at(d)].curve # coils'[at(c)].curve

C4_BaseObjectsReused == [][C4_Step]_vars

C4_Witness ==
    /\ res.op = "coils_via_symmetries"
    /\ res.err = "none"
    /\ Len(res.args.curves) = 2 /\ Len(res.args.currents) = 2
    /\ res.args.nfp = 2 /\ res.args.stellsym
    /\ res.ret[1].curve = res.args.curves[1]
    /\ curveObjs[res.ret[3].curve].kind = "RotatedCurve"

\* ------------------------------------------------------------- C5
\* C5: a call of coils_via_symmetries with lists of different lengths fails
\* with DimensionMismatch and returns no coils.
C5_DimensionMismatch ==
    (res.op = "coils_via_symmetries" /\ ~SameLengths(res.args)) =>
        /\ res.err = "DimensionMismatch"
        /\ "ret" \notin DOMAIN res

\* ------------------------------------------------------------- C6
\* C6: for base Currents a and b, a+b has the value va+vb and -a the value
\* -va, when built and in every later state, whatever a and b are set to.
C6_SumNegValue ==
    /\ \A s \in Ids :
          /\ (heap[s].kind = "CurrentSum" /\ IsCurrent(heap[s].current_a)
                /\ IsCurrent(heap[s].current_b)) =>
                 get_value(heap, s) = Val(heap[s].current_a) + Val(heap[s].current_b)
          /\ (heap[s].kind = "ScaledCurrent" /\ heap[s].scale = -1
                /\ IsCurrent(heap[s].current_to_scale)) =>
                 get_value(heap, s) = 0 - Val(heap[s].current_to_scale)
    /\ (res.op = "add" /\ IsCurrent(res.self) /\ IsCurrent(res.other)) =>
          get_value(heap, res.ret) = Val(res.self) + Val(res.other)
    /\ (res.op = "neg" /\ IsCurrent(res.self)) =>
          get_value(heap, res.ret) = 0 - Val(res.self)

C6_Witness ==
    /\ res.op = "set_dofs"
    /\ \E s \in Ids : /\ heap[s].kind = "CurrentSum"
                      /\ heap[s].current_a = res.self
                      /\ heap[s].current_b # res.self
                      /\ IsCurrent(heap[s].current_b)
    /\ \E m \in Ids : /\ heap[m].kind = "ScaledCurrent"
                      /\ heap[m].scale = -1
                      /\ heap[m].current_to_scale = res.self

\* ------------------------------------------------------------- C7
\* C7: the vjp of the sum of base Currents a and b hands v to a and v to b;
\* when a and b are one node, that node gets 2*v.
C7_SumVjp ==
    (res.op = "vjp" /\ heap[res.self].kind = "CurrentSum"
       /\ IsCurrent(heap[res.self].current_a) /\ IsCurrent(heap[res.self].current_b)) =>
        LET a == heap[res.self].current_a
            b == heap[res.self].current_b
        IN  IF a = b
            THEN res.ret = (CurKey(a) :> 2 * res.v_current)
            ELSE res.ret = (CurKey(a) :> res.v_current) @@ (CurKey(b) :> res.v_current)

C7_Witness ==
    /\ res.op = "vjp"
    /\ heap[res.self].kind = "CurrentSum"
    /\ heap[res.self].current_a = heap[res.self].current_b
    /\ IsCurrent(heap[res.self].current_a)
    /\ res.v_current = 2

\* ------------------------------------------------------------- C8
\* C8: base*k and k*base are ScaledCurrent(base, k); its value is k times the
\* base value and its vjp hands k*v to base; two nested scalings multiply.
IsScaledOfCurrent(s) ==
    heap[s].kind = "ScaledCurrent" /\ IsCurrent(heap[s].current_to_scale)

IsNestedScaled(s) ==
    heap[s].kind = "ScaledCurrent" /\ IsScaledOfCurrent(heap[s].current_to_scale)

C8_Scaling ==
    /\ res.op \in {"mul", "rmul"} =>
          /\ heap[res.ret].kind = "ScaledCurrent"
          /\ heap[res.ret].current_to_scale = res.self
          /\ heap[res.ret].scale = res.other
          /\ get_value(heap, res.ret) = res.other * get_value(heap, res.self)
    /\ \A s \in Ids :
          /\ IsScaledOfCurrent(s) =>
                get_value(heap, s) = heap[s].scale * Val(heap[s].current_to_scale)
          /\ IsNestedScaled(s) =>
                LET inner == heap[s].current_to_scale
                IN  get_value(heap, s) =
                        heap[inner].scale * heap[s].scale * Val(heap[inner].current_to_scale)
    /\ (res.op = "vjp" /\ IsScaledOfCurrent(res.self)) =>
          res.ret = (CurKey(heap[res.self].current_to_scale) :>
                        heap[res.self].scale * res.v_current)
    /\ (res.op = "vjp" /\ IsNestedScaled(res.self)) =>
          LET inner == heap[res.self].current_to_scale
          IN  res.ret = (CurKey(heap[inner].current_to_scale) :>
                            heap[inner].scale * heap[res.self].scale * res.v_current)

C8_Witness ==
    /\ res.op = "vjp"
    /\ IsNestedScaled(res.self)
    /\ heap[res.self].scale = 2
    /\ heap[heap[res.self].current_to_scale].scale = -1
    /\ get_value(heap, res.self) = (-2) * Val(heap[heap[res.self].current_to_scale].current_to_scale)

\* ------------------------------------------------------------- C9
\* C9: a*k, k*a, -a, a+b and a-b each return a node created by the call, with
\* no dofs, depending on the operands (a-b through the node -b it creates);
\* the objects that existed before, the operands among them, are unchanged.
C9_Step ==
    (res'.op \in {"mul", "rmul", "neg", "add", "sub"}) =>
        LET r == res'.ret
        IN  /\ Len(heap') > Len(heap)
            /\ SubSeq(heap', 1, Len(heap)) = heap
            /\ r = Len(heap')
            /\ heap'[r].dofs = <<>>
            /\ res'.op \in {"mul", "rmul", "neg"} =>
                  /\ Len(heap') = Len(heap) + 1
                  /\ heap'[r].depends_on = <<res'.self>>
            /\ res'.op = "add" =>
                  /\ Len(heap') = Len(heap) + 1
                  /\ heap'[r].depends_on = <<res'.self, res'.other>>
            /\ res'.op = "sub" =>
                  /\ Len(heap') = Len(heap) + 2
                  /\ heap'[r].depends_on = <<res'.self, r - 1>>
                  /\ heap'[r - 1].dofs = <<>>
                  /\ heap'[r - 1].depends_on = <<res'.other>>

C9_OperandsUntouched == [][C9_Step]_vars

C9_Witness ==
    /\ res.op = "neg"
    /\ IsCurrent(res.self)
    /\ \E m \in Ids \ {res.ret} : res.self \in Range(heap[m].depends_on)

\* ------------------------------------------------------------- C10
\* C10: sum(xs) over a non-empty list is the left fold of +: its value is the
\* sum of the members' values, its vjp hands v to every member (once per
\* occurrence), and sum([a]) is a itself.
C10_Sum ==
    res.op = "sum" =>
        LET xs == res.xs
            r == res.ret
        IN  /\ get_value(heap, r) = SeqSum([j \in DOMAIN xs |-> get_value(heap, xs[j])], 1)
            /\ Len(xs) = 1 => r = xs[1]
            /\ Len(xs) > 1 =>
                  /\ heap[r].kind = "CurrentSum"
                  /\ heap[r].current_b = xs[Len(xs)]
            /\ (\A j \in DOMAIN xs : IsCurrent(xs[j])) =>
                  \A v \in CoVals :
                      vjp(heap, r, v) =
                          [key \in {CurKey(m) : m \in Range(xs)} |->
                              v * Cardinality({j \in DOMAIN xs : xs[j] = key[2]})]

C10_Witness ==
    /\ res.op = "sum"
    /\ Len(res.xs) = 3
    /\ res.xs[1] = res.xs[3]
    /\ res.xs[1] # res.xs[2]
    /\ \A j \in DOMAIN res.xs : IsCurrent(res.xs[j])

\* ------------------------------------------------------------- C11
\* C11: Coil.vjp(v_gamma, v_gammadash, v_current) on the coil at place j of an
\* expansion of base Currents returns one Derivative with two keys: the base
\* curve of the coil, holding v_gamma on the gamma channel and v_gammadash on
\* the gammadash channel (both under the copy's transform), and the base
\* current of the coil, holding v_current (negated for a flipped copy).  The
\* call changes no curve, no current and no coil.
C11_Step ==
    (res'.op = "coil_vjp" /\ ExpandedFromBaseCurrents) =>
        LET a == expansion.args
            n == Len(a.curves)
            nf == NFlips(a.stellsym)
            j == res'.self
            i == ((j - 1) % n) + 1
            k == ((j - 1) \div n) \div nf
            f == ((j - 1) \div n) % nf
            p == Path(a.nfp, k, f)
        IN  /\ heap' = heap /\ curveObjs' = curveObjs /\ coils' = coils
            /\ res'.ret =
                  (CurveKey(a.curves[i]) :>
                       ((<<"gamma", p>> :> res'.v_gamma)
                            @@ (<<"gammadash", p>> :> res'.v_gammadash)))
                  @@ (CurKey(a.currents[i]) :>
                       (IF f = 1 THEN -1 ELSE 1) * res'.v_current)

C11_CoilVjp == [][C11_Step]_vars

C11_Witness ==
    /\ res.op = "coil_vjp"
    /\ ExpandedFromBaseCurrents
    /\ Len(coils) = 8
    /\ res.self = 8
    /\ res.v_gamma = 1 /\ res.v_gammadash = 2 /\ res.v_current = 2

\* ------------------------------------------------------------- C12
\* C12: SquaredFlux(surface, field, target) leaves the field with exactly the
\* surface's quadrature points, row by row (nphi*ntheta of them), whatever
\* points the field had before; the new object has no dofs and depends on
\* the field alone; the SquaredFlux objects built before are unchanged.
OwnPoints(surface) == Flatten(SurfGamma(surface))

C12_Step ==
    (res'.op = "SquaredFlux") =>
        LET s == res'.surface
            g == SurfGamma(s)
            o == res'.ret
        IN  /\ Len(fieldPoints') = s.nphi * s.ntheta
            /\ \A i \in 1..s.nphi, j \in 1..s.ntheta :
                  fieldPoints'[(i - 1) * s.ntheta + j] = g[i][j]
            /\ Len(fluxObjs') = Len(fluxObjs) + 1
            /\ SubSeq(fluxObjs', 1, Len(fluxObjs)) = fluxObjs
            /\ o = Len(fluxObjs')
            /\ fluxObjs'[o].surface = s
            /\ fluxObjs'[o].target = res'.target
            /\ fluxObjs'[o].dofs = <<>>
            /\ fluxObjs'[o].depends_on = <<"field">>

C12_PointsSetAtConstruction == [][C12_Step]_vars

C12_Witness ==
    /\ res.op = "SquaredFlux"
    /\ Len(fluxObjs) = 2
    /\ fluxObjs[1].surface.nphi = 2 /\ fluxObjs[1].surface.ntheta = 2
    /\ fluxObjs[2].surface.nphi = 1 /\ fluxObjs[2].surface.ntheta = 2
    /\ fluxObjs[2].surface.first = 3
    /\ fieldPoints = <<3, 4>>

\* ------------------------------------------------------------- C13
\* C13: two SquaredFlux objects on one surface, one built with target None and
\* one with an all-zero nphi x ntheta target, give the same J() and hand the
\* same cotangent to field.B_vjp in dJ(), whatever the field and its points.
C13_DefaultTargetZero ==
    \A o1 \in DOMAIN fluxObjs, o2 \in DOMAIN fluxObjs :
        (/\ fluxObjs[o1].surface = fluxObjs[o2].surface
         /\ fluxObjs[o1].target = None
         /\ fluxObjs[o2].target = Array(ConstGrid(fluxObjs[o2].surface, 0))) =>
            /\ SquaredFluxJ(fluxObjs[o1], fieldPoints, fieldB)
                  = SquaredFluxJ(fluxObjs[o2], fieldPoints, fieldB)
            /\ SquaredFluxdJ(fluxObjs[o1], fieldPoints, fieldB)
                  = SquaredFluxdJ(fluxObjs[o2], fieldPoints, fieldB)

C13_Witness ==
    /\ res.op = "dJ"
    /\ res.out.err = "none"
    /\ Len(fluxObjs) = 2
    /\ fluxObjs[1].surface = fluxObjs[2].surface
    /\ fluxObjs[1].surface.nphi = 2 /\ fluxObjs[1].surface.ntheta = 2
    /\ fluxObjs[1].target = None
    /\ fluxObjs[2].target = Array(ConstGrid(fluxObjs[2].surface, 0))
    /\ \A m \in DOMAIN res.out.dJdB.num : res.out.dJdB.num[m] # <<0, 0, 0>>

\* ------------------------------------------------------------- C19
\* C19: every J() and dJ() call of a SquaredFlux has the field evaluated at
\* that object's own surface quadrature points, whatever happened to the
\* shared field since the object was built; the call leaves the field's
\* points as they were.
C19_Step ==
    (res'.op \in {"J", "dJ"}) =>
        /\ res'.points = OwnPoints(fluxObjs[res'.self].surface)
        /\ fieldPoints' = fieldPoints

C19_EvaluatedAtOwnPoints == [][C19_Step]_vars

\* ------------------------------------------------------------- C14
\* C14: dgamma_by_dcoeff_vjp(v) of a wrapper with offsets dn, db returns one
\* Derivative.  Its base-curve entry holds v itself plus the frame's
\* gamma-cotangent (dn*v through n, db*v through b) on the gamma channel and
\* the frame's gammadash-cotangent on the gammadash channel; its entry for
\* the rotation node holds the frame's angle-cotangent.  A wrapper built
\* without a rotation has no rotation entry and depends on the base curve
\* alone.  dgammadash_by_dcoeff_vjp(v) is the same with the frame's
\* derivative, v going to the gammadash channel.
FrameTerms(frame, chans, self) ==
    {<<c, << <<frame, o, c>> >> >> :
        c \in chans, o \in {x \in {"n", "b"} : (IF x = "n" THEN self.dn ELSE self.db) # 0}}

ChainEntry(frame, chans, direct, self, v) ==
    [t \in FrameTerms(frame, chans, self) \cup {<<d, <<>> >> : d \in direct} |->
        IF t[2] = <<>> THEN v
        ELSE IF t[2][1][2] = "n" THEN self.dn * v ELSE self.db * v]

ChainDerivative(frame, curveChans, rotChans, direct, self, v) ==
    [key \in {CurveKey(self.curve)}
              \cup (IF self.rotation.kind = "FilamentRotation"
                    THEN {RotationKey(self.rotation)} ELSE {}) |->
        IF key = CurveKey(self.curve)
        THEN ChainEntry(frame, curveChans, direct, self, v)
        ELSE ChainEntry(frame, rotChans, {}, self, v)]

C14_ChainRule ==
    /\ \A w \in DOMAIN wrappers :
          wrappers[w].depends_on =
              IF wrappers[w].rotation.kind = "FilamentRotation"
              THEN <<CurveKey(1), RotationKey(FilamentRotation)>>
              ELSE <<CurveKey(1)>>
    /\ (res.op = "CurveShiftedRotated" /\ res.rotation = NoRotation) =>
          /\ wrappers[res.ret].rotation = ZeroRotation
          /\ wrappers[res.ret].depends_on = <<CurveKey(1)>>
    /\ res.op = "dgamma_by_dcoeff_vjp" =>
          res.ret = ChainDerivative("frame", {"gamma", "gammadash"}, {"alpha"}, {"gamma"},
                                    wrappers[res.self], res.v)
    /\ res.op = "dgammadash_by_dcoeff_vjp" =>
          res.ret = ChainDerivative("frame_dash", {"gamma", "gammadash", "gammadashdash"},
                                    {"alpha", "alphadash"}, {"gammadash"},
                                    wrappers[res.self], res.v)

C14_Witness ==
    /\ res.op = "dgamma_by_dcoeff_vjp"
    /\ Len(wrappers) = 2
    /\ wrappers[1].rotation = FilamentRotation
    /\ wrappers[2].rotation = ZeroRotation
    /\ res.self = 2
    /\ wrappers[2].dn = 1 /\ wrappers[2].db = 1
    /\ res.v = 2
    /\ DOMAIN res.ret = {CurveKey(1)}

\* ------------------------------------------------------------- C15
\* C15: a quantity a wrapper holds in its cache was computed from the present
\* dofs of the base curve and of the rotation node it depends on, so that
\* gamma() and gammadash() never return a value older than the last dof
\* write to either.
FreshAlpha(self, name) ==
    IF self.rotation.kind = "FilamentRotation" THEN <<name, rotDofs>> ELSE <<"zero", 0>>

FreshGamma(self) ==
    LET g == <<"gamma", baseDofs>>
        gd == <<"gammadash", baseDofs>>
        a == FreshAlpha(self, "alpha")
    IN  [base |-> g, dn |-> self.dn, n |-> <<"n", g, gd, a>>,
         db |-> self.db, b |-> <<"b", g, gd, a>>]

FreshGammaDash(self) ==
    LET g == <<"gamma", baseDofs>>
        gd == <<"gammadash", baseDofs>>
        gdd == <<"gammadashdash", baseDofs>>
        a == FreshAlpha(self, "alpha")
        ad == FreshAlpha(self, "alphadash")
    IN  [base |-> gd, dn |-> self.dn, n |-> <<"nd", g, gd, gdd, a, ad>>,
         db |-> self.db, b |-> <<"bd", g, gd, gdd, a, ad>>]

C15_NoStaleCache ==
    /\ \A w \in DOMAIN wrappers :
          /\ wrappers[w].cache.gamma # <<>> =>
                wrappers[w].cache.gamma[1] = FreshGamma(wrappers[w])
          /\ wrappers[w].cache.gammadash # <<>> =>
                wrappers[w].cache.gammadash[1] = FreshGammaDash(wrappers[w])
    /\ res.op = "gamma" => res.ret = FreshGamma(wrappers[res.self])
    /\ res.op = "gammadash" => res.ret = FreshGammaDash(wrappers[res.self])
    /\ res.op = "set_curve_dofs" =>
          \A w \in DOMAIN wrappers : wrappers[w].cache = NoCache

C15_Witness ==
    /\ res.op = "set_rotation_dofs"
    /\ Len(wrappers) = 2
    /\ res.had_cache = {1, 2}
    /\ wrappers[1].rotation = FilamentRotation
    /\ wrappers[2].rotation = ZeroRotation
    /\ wrappers[1].cache = NoCache
    /\ wrappers[2].cache.gamma # <<>>

\* ------------------------------------------------------------- C17
\* C17: with the base currents of the W7-X example, the values of all base
\* currents add up to the value of total_current in every state, and a
\* cotangent v on the last base current reaches total_current as v and
\* every free Current as -v times its scale factor.
LastBase == baseCurrents[Len(baseCurrents)]

TotalCurrent == heap[LastBase].current_a

FreeBases == SubSeq(baseCurrents, 1, Len(baseCurrents) - 1)

C17_SumIsTotal ==
    /\ SeqSum([j \in DOMAIN baseCurrents |-> get_value(heap, baseCurrents[j])], 1)
          = Val(TotalCurrent)
    /\ fixed = {TotalCurrent}
    /\ \A j \in DOMAIN FreeBases :
          /\ IsScaledOfCurrent(FreeBases[j])
          /\ get_value(heap, FreeBases[j])
                = CurrentScale * Val(heap[FreeBases[j]].current_to_scale)
    /\ (res.op = "vjp" /\ res.self = LastBase) =>
          res.ret = [key \in {CurKey(TotalCurrent)}
                              \cup {CurKey(heap[FreeBases[j]].current_to_scale) :
                                       j \in DOMAIN FreeBases} |->
                        IF key = CurKey(TotalCurrent) THEN res.v_current
                        ELSE (0 - res.v_current) * CurrentScale]

C17_Witness ==
    /\ res.op = "vjp"
    /\ res.self = LastBase
    /\ res.v_current = 2
    /\ Len(baseCurrents) = 5
    /\ \E i \in DOMAIN FreeBases, j \in DOMAIN FreeBases :
          get_value(heap, FreeBases[i]) # get_value(heap, FreeBases[j])
    /\ Val(TotalCurrent) = 2

\* ------------------------------------------------------------- C18
\* C18: in every list coils_via_symmetries returns, the coil at place
\* (k*(1+int(stellsym)) + f)*n + i, n the number of base curves, pairs the
\* copy (k, f) of base curve i with the copy f of base current i: the curve
\* is reflected exactly when the current is ScaledCurrent(base current, -1).
CurveCopyOf(c, base, k, nfp, f) ==
    IF k = 0 /\ f = 0 THEN c = base
    ELSE curveObjs[c] = RotatedCurve(base, <<k, nfp>>, f = 1)

CurrentCopyOf(c, base, f) ==
    IF f = 0 THEN c = base
    ELSE heap[c] = ScaledCurrent(base, -1)

AlignedAt(a, j) ==
    LET n == Len(a.curves)
        nf == NFlips(a.stellsym)
        i == ((j - 1) % n) + 1
        f == ((j - 1) \div n) % nf
        k == ((j - 1) \div n) \div nf
    IN  /\ CurveCopyOf(coils[j].curve, a.curves[i], k, a.nfp, f)
        /\ i \in DOMAIN a.currents
        /\ CurrentCopyOf(coils[j].current, a.currents[i], f)

C18_CurvesCurrentsAligned ==
    (res.op = "coils_via_symmetries" /\ res.err = "none") =>
        \A j \in DOMAIN res.ret : AlignedAt(res.args, j)

\* The pairing as it stands for calls with as many currents as curves.
AlignedOnEqualLengths ==
    (res.op = "coils_via_symmetries" /\ res.err = "none" /\ SameLengths(res.args)) =>
        \A j \in DOMAIN res.ret : AlignedAt(res.args, j)

====
